---- MODULE Spec2Model ----
(***************************************************************************)
(* Bananagine: the two resource pools (internal/ips, internal/ports) and   *)
(* the provisioning / teardown handlers of cmd/server/main.go.             *)
(*                                                                         *)
(* Two specifications share the pool operators:                            *)
(*   PoolSpec  one pool object driven by arbitrary calls of its API        *)
(*   Spec      startup reconciliation, then concurrent POST and DELETE     *)
(*             /orchestration/servers requests                             *)
(***************************************************************************)
EXTENDS Integers, Sequences, FiniteSets, TLC

\* ---------------------------------------------------------------- bounds

\* Largest number of values in a pool's configured range [start, end].
MaxRange == 3

\* Number of requests the API serves: POST /orchestration/servers and
\* DELETE /orchestration/servers/:id together.
MaxProcs == 2

\* Number of entries of the templates directory.
MaxFiles == 3

\* ------------------------------------------------------------ map helpers

\* Go map with no entry (make(map[string]string)).
EmptyMap == [k \in {} |-> ""]

\* m[k] = v
MapPut(m, k, v) == [x \in (DOMAIN m) \cup {k} |-> IF x = k THEN v ELSE m[x]]

\* for k, v := range n { m[k] = v }
MapMerge(m, n) ==
    [x \in (DOMAIN m) \cup (DOMAIN n) |-> IF x \in DOMAIN n THEN n[x] ELSE m[x]]

\* delete(m, k): no effect when k is absent.
MapDelete(m, k) == [x \in (DOMAIN m) \ {k} |-> m[x]]

\* The keys of m whose value is owner.
KeysOwnedBy(m, owner) == {k \in DOMAIN m : m[k] = owner}

\* ------------------------------------------------------- IP pool (ips.Pool)

\* net.IP.String() of a 4-byte address: dotted decimal.
IPString(ip) ==
    ToString(ip[1]) \o "." \o ToString(ip[2]) \o "." \o
    ToString(ip[3]) \o "." \o ToString(ip[4])

\* incIP: add one to the last byte, carrying into the bytes before it; each
\* byte wraps at 256.
RECURSIVE incIPFrom(_, _)
incIPFrom(ip, i) ==
    IF i < 1 THEN ip
    ELSE LET b == (ip[i] + 1) % 256
         IN  IF b # 0 THEN [ip EXCEPT ![i] = b]
             ELSE incIPFrom([ip EXCEPT ![i] = 0], i - 1)

incIP(ip) == incIPFrom(ip, Len(ip))

\* ips.NewPool(start, end): the range and an empty allocated map.
IPNewPool(start, end) == [start |-> start, end |-> end, allocated |-> EmptyMap]

\* The scan of Pool.Allocate from address ip on: the loop runs while ip differs
\* from p.end, takes the first address whose string is no key of allocated, and
\* fails with "no IPs available" when the loop ends.
RECURSIVE IPScan(_, _, _)
IPScan(p, ip, serverID) ==
    IF ip = p.end
    THEN [ok |-> FALSE, value |-> "", pool |-> p]
    ELSE IF IPString(ip) \notin DOMAIN p.allocated
         THEN [ok |-> TRUE, value |-> IPString(ip),
               pool |-> [p EXCEPT !.allocated = MapPut(@, IPString(ip), serverID)]]
         ELSE IPScan(p, incIP(ip), serverID)

\* Mutant of IPAllocate: the scan starts one address after start.
IPAllocate_SkipsStart(p, serverID) ==
    IF p.start = p.end
    THEN [ok |-> FALSE, value |-> "", pool |-> p]
    ELSE IPScan(p, incIP(p.start), serverID)

\* Mutant of IPAllocate: the map is not consulted; start is handed out again.
IPAllocate_NoUsedCheck(p, serverID) ==
    IF p.start = p.end
    THEN [ok |-> FALSE, value |-> "", pool |-> p]
    ELSE [ok |-> TRUE, value |-> IPString(p.start),
          pool |-> [p EXCEPT !.allocated = MapPut(@, IPString(p.start), serverID)]]

\* Pool.Allocate(serverID), under the pool's mutex.
IPAllocate(p, serverID) == IPScan(p, p.start, serverID)

\* Mutant of IPRelease: the map is made anew instead of one key deleted.
IPRelease_ClearsMap(p, ip) == [p EXCEPT !.allocated = EmptyMap]

\* Pool.Release(ip), under the pool's mutex.
IPRelease(p, ip) == [p EXCEPT !.allocated = MapDelete(@, ip)]

\* Mutant of IPReleaseByServer: the loop does not return after the first match.
IPReleaseByServer_All(p, serverID) ==
    {[p EXCEPT !.allocated =
          [k \in (DOMAIN @) \ KeysOwnedBy(@, serverID) |-> @[k]]]}

\* Pool.ReleaseByServer(serverID): ranges over the map (in Go's unspecified
\* order), deletes the first entry owned by serverID and returns. The set of
\* pools the call can leave behind.
IPReleaseByServer(p, serverID) ==
    IF KeysOwnedBy(p.allocated, serverID) = {}
    THEN {p}
    ELSE {[p EXCEPT !.allocated = MapDelete(@, k)] :
             k \in KeysOwnedBy(p.allocated, serverID)}

\* Pool.Reserve(ip, serverID): allocated[ip] = serverID, whatever ip holds.
IPReserve(p, ip, serverID) == [p EXCEPT !.allocated = MapPut(@, ip, serverID)]

\* Mutant of IPReKey: the arguments are taken in the other order.
IPReKey_Swapped(p, old, new) ==
    IF KeysOwnedBy(p.allocated, new) = {}
    THEN {p}
    ELSE {[p EXCEPT !.allocated = MapPut(@, k, old)] :
             k \in KeysOwnedBy(p.allocated, new)}

\* Pool.ReKey(old, new): the entry owned by old becomes owned by new; nothing
\* changes when old owns no entry. The set of pools the call can leave behind.
IPReKey(p, old, new) ==
    IF KeysOwnedBy(p.allocated, old) = {}
    THEN {p}
    ELSE {[p EXCEPT !.allocated = MapPut(@, k, new)] :
             k \in KeysOwnedBy(p.allocated, old)}

\* ---------------------------------------------------- port pool (ports.Pool)

\* ports.NewPool(start, end).
PortNewPool(start, end) == [start |-> start, end |-> end, allocated |-> EmptyMap]

\* The ascending scan of Allocate over [start, end], both ends included.
RECURSIVE PortScan(_, _, _)
PortScan(p, port, serverID) ==
    IF port > p.end
    THEN [ok |-> FALSE, value |-> 0, pool |-> p]
    ELSE IF port \notin DOMAIN p.allocated
         THEN [ok |-> TRUE, value |-> port,
               pool |-> [p EXCEPT !.allocated = MapPut(@, port, serverID)]]
         ELSE PortScan(p, port + 1, serverID)

\* Allocate(ownerKey) of the port pool.
PortAllocate(p, serverID) == PortScan(p, p.start, serverID)

\* Release(value) of the port pool.
PortRelease(p, port) == [p EXCEPT !.allocated = MapDelete(@, port)]

\* ReleaseByServer(ownerKey) of the port pool: removes one entry of the owner.
PortReleaseByServer(p, serverID) ==
    IF KeysOwnedBy(p.allocated, serverID) = {}
    THEN {p}
    ELSE {[p EXCEPT !.allocated = MapDelete(@, k)] :
             k \in KeysOwnedBy(p.allocated, serverID)}

\* Reserve(value, ownerKey) of the port pool.
PortReserve(p, port, serverID) == [p EXCEPT !.allocated = MapPut(@, port, serverID)]

\* ReKey(old, new) of the port pool.
PortReKey(p, old, new) ==
    IF KeysOwnedBy(p.allocated, old) = {}
    THEN {p}
    ELSE {[p EXCEPT !.allocated = MapPut(@, k, new)] :
             k \in KeysOwnedBy(p.allocated, old)}

\* ------------------------------------------------------------------ state

VARIABLES
    ipPool,     \* the IP pool: [start, end, allocated: IP string -> owner]
    portPool,   \* the port pool: [start, end, allocated: port -> owner]
    which,      \* PoolSpec: the pool under test, "ip" or "port"
    drive,      \* PoolSpec: the calls made, "alloc" (Allocate, Release) or "any";
                \* ReqSpec: "one", a single request with any environment;
                \* RaceSpec: "race"; CopySpec: "copy"
    last,       \* PoolSpec: the last call, its arguments, result and the map before it
    run,        \* PoolSpec: the calls so far, while they are Allocate calls of distinct owners
    scen,       \* PoolSpec: how many steps of the [10,12] scenario the calls so far are
    reserved,   \* per pool, the values written by Reserve that have stayed in the map since
    phase,      \* Spec: "boot" before reconciliation, "serving" after it
    containers, \* Spec: the provider's instances, [ID, Ports, IP]
    req,        \* Spec: the provisioning requests, by position in the handler; kept
                \* tells that the key the request allocated has not left the map
                \* since, free how many values of its pool's range were free when
                \* it called Allocate
    td,         \* Spec: the teardown requests, by position in the handler
    now,        \* Spec: the clock read by time.Now().UnixNano()
    nextCid,    \* Spec: the number of container ids the provider has assigned
    solo,       \* Spec: the request that began while no other was in flight, with the
                \* maps of both pools before it; none once another request begins
    loader,     \* LoadSpec: LoadTemplates, its directory listing, loop position and map
    mu,         \* LockSpec: per pool, the request that holds the pool's mutex, or 0
    lk,         \* LockSpec: the requests, by position between their lock operations
                \* and external calls
    heap,       \* CopySpec: the maps and slices there are, by address
    container   \* CopySpec: the provisioning requests, each with its container
                \* struct, whose Environment, Ports and Volumes are addresses

poolVars == <<ipPool, portPool>>
histVars == <<which, drive, last, run, scen>>
flowVars == <<phase, containers, req, td, now, nextCid, solo>>
auxVars == <<loader, mu, lk, heap, container>>
vars == <<ipPool, portPool, which, drive, last, run, scen, reserved,
          phase, containers, req, td, now, nextCid, solo, loader, mu, lk, heap, container>>

\* ------------------------------------------------------- configured ranges

\* The first address of the IP range; the last byte is chosen so that the
\* scan carries into the third byte.
IPStart == <<10, 99, 0, 254>>

\* The address k steps after ip.
RECURSIVE IPAfter(_, _)
IPAfter(ip, k) == IF k = 0 THEN ip ELSE IPAfter(incIP(ip), k - 1)

\* The range of the specification's end-to-end scenario.
ScenRange == <<10, 12>>

\* The first port of the port range.
PortStart == ScenRange[1]

\* The addresses of [start, end], ascending, both ends included.
RECURSIVE IPRangeSeq(_, _)
IPRangeSeq(start, end) ==
    IF start = end THEN <<start>> ELSE <<start>> \o IPRangeSeq(incIP(start), end)

\* The values of a pool's range [start, end] as the keys of its map, ascending.
IPRangeKeys(p) ==
    LET s == IPRangeSeq(p.start, p.end) IN [i \in 1..Len(s) |-> IPString(s[i])]

PortRangeKeys(p) == [i \in 1..(p.end - p.start + 1) |-> p.start + i - 1]

\* The owner keys of the calls: five where the calls are Allocate and Release
\* (the scenario has five owners), three where they are any call of the API.
Owners == {"a", "b", "c", "d", "e"}

ApiOwners == {"a", "b", "c"}

CallOwners == IF drive = "alloc" THEN Owners ELSE ApiOwners

\* ------------------------------------------------- requests and templates

Reqs == 1..MaxProcs

Tds == 1..MaxProcs

\* A provisioning request that has not arrived.
IdleReq ==
    [pc |-> "idle", tmpl |-> "", serverID |-> "", allocatedIP |-> "",
     allocatedPort |-> 0, cid |-> "", status |-> 0, err |-> "", kept |-> FALSE,
     env |-> EmptyMap, callerEnv |-> EmptyMap, hookEnv |-> EmptyMap,
     hook |-> "", issued |-> FALSE, free |-> 0,
     cancelled |-> FALSE]

\* A teardown request that has not arrived.
IdleTd == [pc |-> "idle", id |-> "", status |-> 0, late |-> FALSE]

NoSolo == [r |-> 0, ip |-> EmptyMap, port |-> EmptyMap]

\* LoadTemplates before it is called.
IdleLoader == [pc |-> "idle", dirOk |-> TRUE, files |-> <<>>, i |-> 1,
               templates |-> EmptyMap]

\* The requests of LockSpec.
Procs == 1..MaxProcs

\* Both mutexes unlocked.
FreeMu == [ip |-> 0, port |-> 0]

\* A request of LockSpec that has not arrived.
IdleLk == [kind |-> "", hook |-> FALSE, pool |-> "", op |-> "", pc |-> "idle"]

\* LoadSpec and LockSpec at rest.
\* A provisioning request of CopySpec that has not arrived.
IdleContainer ==
    [pc |-> "idle", tmpl |-> "", serverID |-> "", c |-> <<>>, allocatedIP |-> "",
     allocatedPort |-> 0, callerEnv |-> EmptyMap, hookEnv |-> EmptyMap,
     status |-> 0, sent |-> <<>>]

CopyIdle ==
    /\ heap = EmptyMap
    /\ container = [r \in Reqs |-> IdleContainer]

AuxIdle ==
    /\ loader = IdleLoader
    /\ mu = FreeMu
    /\ lk = [p \in Procs |-> IdleLk]
    /\ CopyIdle

\* ------------------------------------------- PoolSpec: one pool, any calls

\* The scenario of the specification, as calls: the Release is of the range's
\* first value.
ScenOps == <<
    [op |-> "Allocate", owner |-> "a"],
    [op |-> "Allocate", owner |-> "b"],
    [op |-> "Release",  owner |-> ""],
    [op |-> "Allocate", owner |-> "c"],
    [op |-> "Allocate", owner |-> "d"],
    [op |-> "Allocate", owner |-> "e"] >>

\* The call continues the scenario after scen steps of it.
ScenNext(op, owner, value, firstKey) ==
    /\ scen >= 0
    /\ scen < Len(ScenOps)
    /\ op = ScenOps[scen + 1].op
    /\ op = "Allocate" => owner = ScenOps[scen + 1].owner
    /\ op = "Release" => value = firstKey

\* What a call leaves in the history variables.
Track(op, owner, newOwner, value, ok, before, after, firstKey) ==
    /\ last' = [op |-> op, owner |-> owner, newOwner |-> newOwner,
                value |-> value, ok |-> ok, before |-> before]
    /\ run' = IF op = "Allocate" /\ run.pure /\ owner \notin run.owners
              THEN [pure |-> TRUE,
                    owners |-> run.owners \cup {owner},
                    vals |-> IF ok THEN Append(run.vals, value) ELSE run.vals,
                    failed |-> run.failed \/ ~ok]
              ELSE [pure |-> FALSE, owners |-> {}, vals |-> <<>>, failed |-> FALSE]
    /\ scen' = IF ScenNext(op, owner, value, firstKey) THEN scen + 1 ELSE -1
    /\ reserved' = [reserved EXCEPT ![which] =
                        (IF op = "Reserve" THEN @ \cup {value} ELSE @) \cap DOMAIN after]

\* The values a caller passes to Reserve, those of the range, and to Release,
\* those and the one after the range's end.
IPValues(p) == {IPRangeKeys(p)[i] : i \in DOMAIN IPRangeKeys(p)}

IPReleaseValues(p) == IPValues(p) \cup {IPString(incIP(p.end))}

PortValues(p) == p.start..p.end

PortReleaseValues(p) == p.start..(p.end + 1)

PoolInit ==
    /\ which \in {"ip", "port"}
    /\ drive \in {"alloc", "any"}
    /\ \E k \in 0..(MaxRange - 1) :
          /\ ipPool = IPNewPool(IPStart, IPAfter(IPStart, k))
          /\ portPool = PortNewPool(PortStart, PortStart + k)
          /\ scen = IF drive = "alloc" /\ k = ScenRange[2] - ScenRange[1]
                    THEN 0 ELSE -1
    /\ last = [op |-> "none", owner |-> "", newOwner |-> "",
               value |-> IF which = "ip" THEN "" ELSE 0,
               ok |-> TRUE, before |-> EmptyMap]
    /\ run = [pure |-> drive = "alloc", owners |-> {}, vals |-> <<>>, failed |-> FALSE]
    /\ reserved = [ip |-> {}, port |-> {}]
    /\ phase = "pool"
    /\ containers = {}
    /\ req = [r \in Reqs |-> IdleReq]
    /\ td = [d \in Tds |-> IdleTd]
    /\ now = 0
    /\ nextCid = 0
    /\ solo = NoSolo
    /\ AuxIdle

IPAllocateCall(o) ==
    /\ which = "ip"
    /\ LET r == IPAllocate(ipPool, o)
       IN  /\ ipPool' = r.pool
           /\ Track("Allocate", o, "", r.value, r.ok, ipPool.allocated,
                    r.pool.allocated, IPString(ipPool.start))
    /\ UNCHANGED <<portPool, which, drive, flowVars, auxVars>>

IPReleaseCall(v) ==
    /\ which = "ip"
    /\ ipPool' = IPRelease(ipPool, v)
    /\ Track("Release", "", "", v, TRUE, ipPool.allocated,
             ipPool'.allocated, IPString(ipPool.start))
    /\ UNCHANGED <<portPool, which, drive, flowVars, auxVars>>

IPReleaseByServerCall(o) ==
    /\ which = "ip"
    /\ drive = "any"
    /\ \E q \in IPReleaseByServer(ipPool, o) :
          /\ ipPool' = q
          /\ Track("ReleaseByServer", o, "", "", TRUE, ipPool.allocated,
                   q.allocated, IPString(ipPool.start))
    /\ UNCHANGED <<portPool, which, drive, flowVars, auxVars>>

IPReserveCall(v, o) ==
    /\ which = "ip"
    /\ drive = "any"
    /\ ipPool' = IPReserve(ipPool, v, o)
    /\ Track("Reserve", o, "", v, TRUE, ipPool.allocated,
             ipPool'.allocated, IPString(ipPool.start))
    /\ UNCHANGED <<portPool, which, drive, flowVars, auxVars>>

IPReKeyCall(o, n) ==
    /\ which = "ip"
    /\ drive = "any"
    /\ \E q \in IPReKey(ipPool, o, n) :
          /\ ipPool' = q
          /\ Track("ReKey", o, n, "", TRUE, ipPool.allocated,
                   q.allocated, IPString(ipPool.start))
    /\ UNCHANGED <<portPool, which, drive, flowVars, auxVars>>

PortAllocateCall(o) ==
    /\ which = "port"
    /\ LET r == PortAllocate(portPool, o)
       IN  /\ portPool' = r.pool
           /\ Track("Allocate", o, "", r.value, r.ok, portPool.allocated,
                    r.pool.allocated, portPool.start)
    /\ UNCHANGED <<ipPool, which, drive, flowVars, auxVars>>

PortReleaseCall(v) ==
    /\ which = "port"
    /\ portPool' = PortRelease(portPool, v)
    /\ Track("Release", "", "", v, TRUE, portPool.allocated,
             portPool'.allocated, portPool.start)
    /\ UNCHANGED <<ipPool, which, drive, flowVars, auxVars>>

PortReleaseByServerCall(o) ==
    /\ which = "port"
    /\ drive = "any"
    /\ \E q \in PortReleaseByServer(portPool, o) :
          /\ portPool' = q
          /\ Track("ReleaseByServer", o, "", 0, TRUE, portPool.allocated,
                   q.allocated, portPool.start)
    /\ UNCHANGED <<ipPool, which, drive, flowVars, auxVars>>

PortReserveCall(v, o) ==
    /\ which = "port"
    /\ drive = "any"
    /\ portPool' = PortReserve(portPool, v, o)
    /\ Track("Reserve", o, "", v, TRUE, portPool.allocated,
             portPool'.allocated, portPool.start)
    /\ UNCHANGED <<ipPool, which, drive, flowVars, auxVars>>

PortReKeyCall(o, n) ==
    /\ which = "port"
    /\ drive = "any"
    /\ \E q \in PortReKey(portPool, o, n) :
          /\ portPool' = q
          /\ Track("ReKey", o, n, 0, TRUE, portPool.allocated,
                   q.allocated, portPool.start)
    /\ UNCHANGED <<ipPool, which, drive, flowVars, auxVars>>

PoolNext ==
    \/ \E o \in CallOwners : IPAllocateCall(o)
    \/ \E v \in IPReleaseValues(ipPool) : IPReleaseCall(v)
    \/ \E o \in CallOwners : IPReleaseByServerCall(o)
    \/ \E v \in IPValues(ipPool), o \in CallOwners : IPReserveCall(v, o)
    \/ \E o \in CallOwners, n \in CallOwners : IPReKeyCall(o, n)
    \/ \E o \in CallOwners : PortAllocateCall(o)
    \/ \E v \in PortReleaseValues(portPool) : PortReleaseCall(v)
    \/ \E o \in CallOwners : PortReleaseByServerCall(o)
    \/ \E v \in PortValues(portPool), o \in CallOwners : PortReserveCall(v, o)
    \/ \E o \in CallOwners, n \in CallOwners : PortReKeyCall(o, n)

PoolSpec == PoolInit /\ [][PoolNext]_vars

\* ------------------------------------------------ PoolSpec: the pool claims

\* The pool under test, its range as ascending keys, and the number of values
\* in [start, end].
TestPool == IF which = "ip" THEN ipPool ELSE portPool

RangeKeys == IF which = "ip" THEN IPRangeKeys(ipPool) ELSE PortRangeKeys(portPool)

RangeSize == Len(RangeKeys)

\* v is the smallest value of the range that is no key of m.
IsSmallestFree(v, m) ==
    \E i \in 1..RangeSize :
        /\ RangeKeys[i] = v
        /\ v \notin DOMAIN m
        /\ \A j \in 1..(i - 1) : RangeKeys[j] \in DOMAIN m

\* What Allocate(o) returns in the current state of the pool under test.
AllocateNow(o) ==
    IF which = "ip" THEN IPAllocate(ipPool, o) ELSE PortAllocate(portPool, o)

\* The pool under test after one more Release(v).
ReleaseNow(v) ==
    IF which = "ip" THEN IPRelease(ipPool, v) ELSE PortRelease(portPool, v)

\* C4: on a fresh pool whose range holds N values, Allocate calls with distinct
\* owner keys succeed N times with N distinct values and fail from the (N+1)th
\* on, for the IP pool as for the port pool: while the calls are such calls, no
\* more than N have succeeded, their values are distinct, and one has failed
\* only after N successes.
C4_ExhaustsAfterN ==
    run.pure =>
        /\ Len(run.vals) <= RangeSize
        /\ \A i, j \in 1..Len(run.vals) : i # j => run.vals[i] # run.vals[j]
        /\ run.failed => Len(run.vals) = RangeSize

\* C5: a successful Allocate returns the smallest value of [start, end] that was
\* not in the allocated map, and the map then holds it as owned by the caller's
\* owner key.
C5_AllocateSmallestFree ==
    (last.op = "Allocate" /\ last.ok) =>
        /\ IsSmallestFree(last.value, last.before)
        /\ last.value \in DOMAIN TestPool.allocated
        /\ TestPool.allocated[last.value] = last.owner

\* C5 witness: the IP pool's Allocate fills a hole at the start of the range
\* while a later address is taken.
C5_Witness ==
    /\ which = "ip"
    /\ last.op = "Allocate" /\ last.ok
    /\ RangeSize >= 3
    /\ last.value = RangeKeys[1]
    /\ RangeKeys[2] \in DOMAIN last.before

\* C6: a released value is allocatable again. Where the calls are Allocate and
\* Release calls, after Release(v) of an allocated value, Allocate with a fresh owner returns v whenever v is the
\* smallest free value; and on a range of three values the calls Allocate(a),
\* Allocate(b), Release(first), Allocate(c), Allocate(d), Allocate(e) return the
\* first, the second, -, the first, the third value and pool exhaustion.
C6_ReleasedIsAllocatable ==
    /\ (/\ drive = "alloc"
        /\ last.op = "Release"
        /\ last.value \in DOMAIN last.before
        /\ IsSmallestFree(last.value, TestPool.allocated))
       => \A o \in Owners :
              /\ AllocateNow(o).ok
              /\ AllocateNow(o).value = last.value
    /\ scen = 1 => last.ok /\ last.value = RangeKeys[1]
    /\ scen = 2 => last.ok /\ last.value = RangeKeys[2]
    /\ scen = 4 => last.ok /\ last.value = RangeKeys[1]
    /\ scen = 5 => last.ok /\ last.value = RangeKeys[3]
    /\ scen = 6 => ~last.ok

\* C7: Release of a value that is not allocated leaves the allocated map as it
\* was and reports nothing, and a second Release of the same value changes
\* nothing more.
C7_ReleaseIdempotent ==
    last.op = "Release" =>
        /\ last.ok
        /\ last.value \notin DOMAIN last.before => TestPool.allocated = last.before
        /\ ReleaseNow(last.value) = TestPool

\* C7 witness: the IP pool's Release of a value that is not allocated, on a pool
\* that holds other entries.
C7_Witness ==
    /\ which = "ip"
    /\ last.op = "Release"
    /\ last.value \notin DOMAIN last.before
    /\ last.before # EmptyMap

\* C8: ReKey(old, new) where old owns one value v leaves v owned by new, the
\* keys of the map and every other entry as they were, and (new differing from
\* old) no entry owned by old; where old owns nothing the map is unchanged.
C8_ReKeyFrame ==
    last.op = "ReKey" =>
        LET K == KeysOwnedBy(last.before, last.owner)
            m == TestPool.allocated
        IN  /\ K = {} => m = last.before
            /\ Cardinality(K) = 1 =>
                  /\ DOMAIN m = DOMAIN last.before
                  /\ \A v \in K : m[v] = last.newOwner
                  /\ \A v \in (DOMAIN m) \ K : m[v] = last.before[v]
                  /\ last.newOwner # last.owner => KeysOwnedBy(m, last.owner) = {}

\* C8 witness: a ReKey to another owner of the one entry old owns, beside an
\* entry of a third owner.
C8_Witness ==
    /\ last.op = "ReKey"
    /\ last.newOwner # last.owner
    /\ Cardinality(KeysOwnedBy(last.before, last.owner)) = 1
    /\ \E v \in DOMAIN last.before : last.before[v] \notin {last.owner, last.newOwner}

\* C9: ReleaseByServer(k) leaves the map unchanged when k owns no entry; when k
\* owns one it removes exactly one entry, one owned by k, and leaves every other
\* entry as it was.
C9_ReleaseByOwnerFrame ==
    last.op = "ReleaseByServer" =>
        LET K == KeysOwnedBy(last.before, last.owner)
            m == TestPool.allocated
        IN  /\ K = {} => m = last.before
            /\ K # {} =>
                  \E k \in K :
                      /\ DOMAIN m = (DOMAIN last.before) \ {k}
                      /\ \A v \in DOMAIN m : m[v] = last.before[v]

\* C9 witness: the IP pool's ReleaseByServer of an owner that owns two entries.
C9_Witness ==
    /\ which = "ip"
    /\ last.op = "ReleaseByServer"
    /\ Cardinality(KeysOwnedBy(last.before, last.owner)) >= 2

\* C10: no Allocate returns a value that Reserve wrote and that has stayed in
\* the allocated map since, nor any other value the map holds.
C10_ReservedNotAllocated ==
    (last.op = "Allocate" /\ last.ok) =>
        /\ last.value \notin reserved[which]
        /\ last.value \notin DOMAIN last.before

\* C10 witness: the IP pool's Allocate passes over the reserved first address
\* of the range and returns the second.
C10_Witness ==
    /\ which = "ip"
    /\ last.op = "Allocate" /\ last.ok
    /\ RangeKeys[1] \in reserved[which]
    /\ last.value = RangeKeys[2]

\* ------------------------------------- Spec: reconciliation and the handlers

\* The port of overlay mode when the template declares no binding.
DefaultPort == 5520

\* The loaded templates, by name: the container's network name, its declared
\* port bindings and environment, the server-config overlay and the pre-start
\* hook URL. The first two are the README's; the other two have no hook and
\* no binding, and set keys the handler sets too.
Templates ==
    [n \in {"hytale-test", "hytale-prod", "hytale-bare", "hytale-lan"} |->
        CASE n = "hytale-test" ->
                 [Network |-> "", Ports |-> <<[Host |-> 0, Container |-> 0]>>,
                  Environment |-> [k \in {"SERVER_TYPE", "SERVER_MODE"} |->
                                      IF k = "SERVER_TYPE" THEN "game" ELSE "skywars"],
                  Server |-> EmptyMap,
                  PreStart |-> "http://host.containers.internal:3002/tokens"]
          [] n = "hytale-prod" ->
                 [Network |-> "banananet",
                  Ports |-> <<[Host |-> 0, Container |-> 5520]>>,
                  Environment |-> [k \in {"SERVER_TYPE", "SERVER_MODE"} |->
                                      IF k = "SERVER_TYPE" THEN "game" ELSE "skywars"],
                  Server |-> EmptyMap,
                  PreStart |-> "http://10.99.0.3:3002/tokens"]
          [] n = "hytale-bare" ->
                 [Network |-> "", Ports |-> <<>>,
                  Environment |-> [k \in {"SERVER_MODE"} |-> "skywars"],
                  Server |-> [k \in {"SERVER_MODE", "SERVER_PORT"} |-> "server"],
                  PreStart |-> ""]
          [] OTHER ->
                 [Network |-> "banananet", Ports |-> <<>>,
                  Environment |-> [k \in {"SERVER_HOST", "SERVER_ID"} |-> "template"],
                  Server |-> EmptyMap,
                  PreStart |-> ""]]

\* The template names a request may carry: the loaded ones and an unknown one.
RequestNames == (DOMAIN Templates) \cup {"nope"}

\* The instances the provider may hold when the process starts: none, one with
\* a bound port of the range, one with two, one on the overlay network with an
\* address of the range and its fixed port, two on the overlay network.
ExistingChoices ==
    { {},
      {[ID |-> "x1", Ports |-> {PortStart}, IP |-> ""]},
      {[ID |-> "x1", Ports |-> {PortStart, PortStart + 1}, IP |-> ""]},
      {[ID |-> "x1", Ports |-> {DefaultPort}, IP |-> IPString(IPStart)]},
      {[ID |-> "x1", Ports |-> {DefaultPort}, IP |-> IPString(IPStart)],
       [ID |-> "x2", Ports |-> {}, IP |-> IPString(incIP(IPStart))]} }

\* PortPool.Reserve(p, id) for each port of a set.
RECURSIVE ReservePorts(_, _, _)
ReservePorts(p, ports, id) ==
    IF ports = {} THEN p
    ELSE LET x == CHOOSE x \in ports : TRUE
         IN  ReservePorts(PortReserve(p, x, id), ports \ {x}, id)

\* The reconciliation loop over the listed instances: every port of each into
\* the port pool, its IP, when it has one, into the IP pool.
RECURSIVE ReconcilePools(_, _)
ReconcilePools(pools, existing) ==
    IF existing = {} THEN pools
    ELSE LET s == CHOOSE s \in existing : TRUE
         IN  ReconcilePools(
                 [port |-> ReservePorts(pools.port, s.Ports, s.ID),
                  ip |-> IF s.IP # "" THEN IPReserve(pools.ip, s.IP, s.ID)
                         ELSE pools.ip],
                 existing \ {s})

\* The requests after a step that leaves them as rq: a request's key is kept
\* while it is in the map of the pool it was allocated from.
Settle(rq) ==
    [r \in Reqs |->
        [rq[r] EXCEPT !.kept =
            @ /\ IF rq[r].allocatedIP # ""
                 THEN rq[r].allocatedIP \in DOMAIN ipPool'.allocated
                 ELSE rq[r].allocatedPort \in DOMAIN portPool'.allocated]]

\* The values Reserve wrote stay recorded while they stay in the maps.
KeepReserved ==
    reserved' = [ip |-> reserved.ip \cap DOMAIN ipPool'.allocated,
                 port |-> reserved.port \cap DOMAIN portPool'.allocated]

Init ==
    /\ which = "none"
    /\ drive = "none"
    /\ last = [op |-> "none", owner |-> "", newOwner |-> "", value |-> "",
               ok |-> TRUE, before |-> EmptyMap]
    /\ run = [pure |-> FALSE, owners |-> {}, vals |-> <<>>, failed |-> FALSE]
    /\ scen = -1
    /\ reserved = [ip |-> {}, port |-> {}]
    /\ ipPool = IPNewPool(IPStart, IPAfter(IPStart, MaxRange - 1))
    /\ portPool = PortNewPool(PortStart, PortStart + MaxRange - 1)
    /\ phase = "boot"
    /\ containers \in ExistingChoices
    /\ req = [r \in Reqs |-> IdleReq]
    /\ td = [d \in Tds |-> IdleTd]
    /\ now = 1
    /\ nextCid = 0
    /\ solo = NoSolo
    /\ AuxIdle

\* Startup: provider.List succeeds or fails; on success the pools are seeded.
Reconcile(listOk) ==
    /\ phase = "boot"
    /\ phase' = "serving"
    /\ LET pools == IF listOk
                    THEN ReconcilePools([ip |-> ipPool, port |-> portPool], containers)
                    ELSE [ip |-> ipPool, port |-> portPool]
       IN  /\ ipPool' = pools.ip
           /\ portPool' = pools.port
           /\ reserved' = [ip |-> DOMAIN pools.ip.allocated,
                           port |-> DOMAIN pools.port.allocated]
    /\ UNCHANGED <<auxVars, histVars, containers, req, td, now, nextCid, solo>>

\* The number of requests that have arrived.
Arrived ==
    Cardinality({r \in Reqs : req[r].pc # "idle"})
        + Cardinality({d \in Tds : td[d].pc # "idle"})

\* No other request, provisioning or teardown, is between its first and its
\* last step.
OthersQuiet(r) ==
    /\ \A q \in Reqs \ {r} : req[q].pc \in {"idle", "done"}
    /\ \A d \in Tds : td[d].pc \in {"idle", "done"}

\* The port handed to the container in overlay mode.
OverlayPort(t) == IF Len(t.Ports) > 0 THEN t.Ports[1].Container ELSE DefaultPort

\* The address host mode writes to SERVER_HOST.
HostBindAddress == "0.0.0.0"

\* container.Environment after the server-config overlay is merged into the
\* template's copy.
BaseEnv(t) == MapMerge(t.Environment, t.Server)

\* container.Environment after the mode's SERVER_HOST and then SERVER_PORT and
\* SERVER_ID are written.
ModeEnv(env, host, port, serverID) ==
    MapPut(MapPut(MapPut(env, "SERVER_HOST", host),
                  "SERVER_PORT", ToString(port)),
           "SERVER_ID", serverID)

\* The env objects a caller may send with a request: none where requests run
\* side by side, and where one request runs alone also ones that set keys the
\* template, the handler and the hook set.
CallerEnvs ==
    IF drive = "one"
    THEN {EmptyMap,
          [k \in {"SERVER_HOST"} |-> "caller"],
          [k \in {"SERVER_MODE", "SERVER_PORT", "TOKEN"} |-> "caller"],
          [k \in {"SERVER_ID", "SERVER_TYPE"} |-> "caller"]}
    ELSE {EmptyMap}

\* The env objects a hook may answer with: none (also a body that does not
\* decode), and where one request runs alone also ones that set keys.
HookEnvs ==
    IF drive = "one"
    THEN {EmptyMap,
          [k \in {"TOKEN", "SERVER_HOST"} |-> "hook"],
          [k \in {"SERVER_PORT", "SERVER_MODE", "SERVER_ID"} |-> "hook"]}
    ELSE {EmptyMap}

\* The number of requests served: one where a request runs alone, one more
\* than the provisioning requests where teardowns race them.
ProcLimit ==
    IF drive = "one" THEN 1 ELSE IF drive = "race" THEN MaxProcs + 1 ELSE MaxProcs

\* POST /orchestration/servers up to the hook: template lookup, copy of the
\* template's container, server id, server-config overlay, mode, pool
\* allocation and the mode's environment. Requests are numbered in the order
\* they arrive.
Begin(r, name, callerEnv) ==
    /\ phase = "serving"
    /\ req[r].pc = "idle"
    /\ \A q \in 1..(r - 1) : req[q].pc # "idle"
    /\ Arrived < ProcLimit
    /\ IF name \notin DOMAIN Templates
       THEN /\ req' = [req EXCEPT ![r] = [@ EXCEPT !.pc = "done", !.tmpl = name,
                                             !.status = 404, !.err = "template"]]
            /\ UNCHANGED <<ipPool, portPool, now, solo>>
       ELSE LET t == Templates[name]
                serverID == name \o "-" \o ToString(now)
                a == IF t.Network # "" THEN IPAllocate(ipPool, serverID)
                     ELSE PortAllocate(portPool, serverID)
                next == IF t.PreStart # "" THEN "hook" ELSE "create"
                free == IF t.Network # ""
                        THEN Cardinality(IPValues(ipPool) \ DOMAIN ipPool.allocated)
                        ELSE Cardinality(PortValues(portPool)
                                             \ DOMAIN portPool.allocated)
                failed == [req[r] EXCEPT !.pc = "done", !.tmpl = name,
                                         !.serverID = serverID,
                                         !.free = free,
                                         !.status = 503, !.err = "exhausted"]
            IN  /\ now' = now + 1
                /\ solo' = IF OthersQuiet(r)
                           THEN [r |-> r, ip |-> ipPool.allocated,
                                 port |-> portPool.allocated]
                           ELSE NoSolo
                /\ IF t.Network # ""
                   THEN /\ ipPool' = a.pool
                        /\ portPool' = portPool
                        /\ req' = [req EXCEPT ![r] =
                              IF a.ok
                              THEN [@ EXCEPT !.pc = next, !.tmpl = name,
                                        !.serverID = serverID,
                                        !.allocatedIP = a.value,
                                        !.allocatedPort = OverlayPort(t),
                                        !.kept = TRUE,
                                        !.free = free,
                                        !.callerEnv = callerEnv,
                                        !.env = ModeEnv(BaseEnv(t), a.value,
                                                        OverlayPort(t), serverID)]
                              ELSE failed]
                   ELSE /\ portPool' = a.pool
                        /\ ipPool' = ipPool
                        /\ req' = [req EXCEPT ![r] =
                              IF a.ok
                              THEN [@ EXCEPT !.pc = next, !.tmpl = name,
                                        !.serverID = serverID,
                                        !.allocatedPort = a.value,
                                        !.kept = TRUE,
                                        !.free = free,
                                        !.callerEnv = callerEnv,
                                        !.env = ModeEnv(BaseEnv(t), HostBindAddress,
                                                        a.value, serverID)]
                              ELSE failed]
    /\ KeepReserved
    /\ UNCHANGED <<auxVars, histVars, phase, containers, td, nextCid>>

\* The pre-start hook call, http.Get of the hook URL without the request's
\* context: it fails, or answers with a 2xx or a non-2xx status. Only a failed
\* call ends the request; it returns 500 at once. An answer's env object,
\* whatever its status, is merged into the environment.
Hook(r, outcome, hookEnv) ==
    /\ req[r].pc = "hook"
    /\ req' = [req EXCEPT ![r] =
                  IF outcome = "error"
                  THEN [@ EXCEPT !.pc = "done", !.status = 500, !.err = "hook",
                                 !.hook = outcome]
                  ELSE [@ EXCEPT !.pc = "create", !.hook = outcome,
                                 !.hookEnv = hookEnv,
                                 !.env = MapMerge(@, hookEnv)]]
    /\ UNCHANGED <<auxVars, poolVars, histVars, reserved, phase, containers, td, now,
                   nextCid, solo>>

\* The caller's connection closes while the request waits on the hook or on
\* the provider: the request's context is cancelled.
Cancel(r) ==
    /\ drive = "one"
    /\ req[r].pc \in {"hook", "create"}
    /\ ~req[r].cancelled
    /\ req' = [req EXCEPT ![r] = [@ EXCEPT !.cancelled = TRUE]]
    /\ UNCHANGED <<auxVars, poolVars, histVars, reserved, phase, containers, td, now,
                   nextCid, solo>>

\* Mutant of FinalEnv: the caller's entries are written first.
FinalEnv_CallerFirst(q) == MapMerge(q.callerEnv, q.env)

\* container.Environment after the caller's env is merged, as the provider
\* gets it.
FinalEnv(q) == MapMerge(q.env, q.callerEnv)

\* The caller's env merged last, then provider.Allocate with the request's
\* context: an error (always so once the context is cancelled), or a new
\* instance with an id of its own.
Create(r, ok) ==
    /\ req[r].pc = "create"
    /\ req[r].cancelled => ~ok
    /\ IF ok
       THEN LET id == "c" \o ToString(nextCid + 1)
            IN  /\ nextCid' = nextCid + 1
                /\ containers' = containers \cup
                       {[ID |-> id,
                         Ports |-> IF req[r].allocatedIP = ""
                                   THEN {req[r].allocatedPort} ELSE {},
                         IP |-> req[r].allocatedIP]}
                /\ req' = [req EXCEPT ![r] =
                              [@ EXCEPT !.pc = "rekey", !.cid = id, !.issued = TRUE,
                                        !.env = FinalEnv(req[r])]]
       ELSE /\ req' = [req EXCEPT ![r] =
                          [@ EXCEPT !.pc = "rollback", !.issued = TRUE,
                                    !.env = FinalEnv(req[r])]]
            /\ UNCHANGED <<nextCid, containers>>
    /\ UNCHANGED <<auxVars, poolVars, histVars, reserved, phase, td, now, solo>>

\* Mutant of Rollback: the port is released whatever the mode.
Rollback_PortOnly(r) ==
    /\ req[r].pc = "rollback"
    /\ portPool' = PortRelease(portPool, req[r].allocatedPort)
    /\ ipPool' = ipPool
    /\ req' = Settle([req EXCEPT ![r] = [@ EXCEPT !.pc = "done", !.status = 500,
                                             !.err = "provider"]])
    /\ KeepReserved
    /\ UNCHANGED <<auxVars, histVars, phase, containers, td, now, nextCid, solo>>

\* Mutant of Rollback: the IP and the port are both released.
Rollback_BothPools(r) ==
    /\ req[r].pc = "rollback"
    /\ ipPool' = IPRelease(ipPool, req[r].allocatedIP)
    /\ portPool' = PortRelease(portPool, req[r].allocatedPort)
    /\ req' = Settle([req EXCEPT ![r] = [@ EXCEPT !.pc = "done", !.status = 500,
                                             !.err = "provider"]])
    /\ KeepReserved
    /\ UNCHANGED <<auxVars, histVars, phase, containers, td, now, nextCid, solo>>

\* The provider failed: the allocated IP, or else the allocated port, is
\* released by value and the provider's error is returned.
Rollback(r) ==
    /\ req[r].pc = "rollback"
    /\ IF req[r].allocatedIP # ""
       THEN /\ ipPool' = IPRelease(ipPool, req[r].allocatedIP)
            /\ portPool' = portPool
       ELSE /\ portPool' = PortRelease(portPool, req[r].allocatedPort)
            /\ ipPool' = ipPool
    /\ req' = Settle([req EXCEPT ![r] = [@ EXCEPT !.pc = "done", !.status = 500,
                                             !.err = "provider"]])
    /\ KeepReserved
    /\ UNCHANGED <<auxVars, histVars, phase, containers, td, now, nextCid, solo>>

\* Mutant of Rekey: the instance is returned without the re-key.
Rekey_Skipped(r) ==
    /\ req[r].pc = "rekey"
    /\ req' = [req EXCEPT ![r] = [@ EXCEPT !.pc = "done", !.status = 201]]
    /\ UNCHANGED <<auxVars, poolVars, histVars, reserved, phase, containers, td, now,
                   nextCid, solo>>

\* The provider succeeded: the pool entry is re-keyed from the server id to the
\* instance id and the instance is returned.
Rekey(r) ==
    /\ req[r].pc = "rekey"
    /\ IF req[r].allocatedIP # ""
       THEN /\ ipPool' \in IPReKey(ipPool, req[r].serverID, req[r].cid)
            /\ portPool' = portPool
       ELSE /\ portPool' \in PortReKey(portPool, req[r].serverID, req[r].cid)
            /\ ipPool' = ipPool
    /\ req' = Settle([req EXCEPT ![r] = [@ EXCEPT !.pc = "done", !.status = 201]])
    /\ KeepReserved
    /\ UNCHANGED <<auxVars, histVars, phase, containers, td, now, nextCid, solo>>

\* The ids a DELETE request may name: the server ids and instance ids there
\* are, and one that names nothing.
KnownIds ==
    {req[r].serverID : r \in {q \in Reqs : req[q].serverID # ""}}
        \cup {req[r].cid : r \in {q \in Reqs : req[q].cid # ""}}
        \cup {s.ID : s \in containers}
        \cup {"unknown"}

\* DELETE /orchestration/servers/:id, first call: portPool.ReleaseByServer(id).
\* Requests are numbered in the order they arrive.
TdReleasePort(d, id) ==
    /\ phase = "serving"
    /\ td[d].pc = "idle"
    /\ \A e \in 1..(d - 1) : td[e].pc # "idle"
    /\ Arrived < ProcLimit
    /\ portPool' \in PortReleaseByServer(portPool, id)
    /\ ipPool' = ipPool
    /\ td' = [td EXCEPT ![d] =
                 [@ EXCEPT !.pc = "relIP", !.id = id,
                     !.late = \E r \in Reqs : req[r].pc = "done" /\ req[r].cid = id]]
    /\ solo' = NoSolo
    /\ req' = Settle(req)
    /\ KeepReserved
    /\ UNCHANGED <<auxVars, histVars, phase, containers, now, nextCid>>

\* Second call: ipPool.ReleaseByServer(id).
TdReleaseIP(d) ==
    /\ td[d].pc = "relIP"
    /\ ipPool' \in IPReleaseByServer(ipPool, td[d].id)
    /\ portPool' = portPool
    /\ td' = [td EXCEPT ![d] = [@ EXCEPT !.pc = "dealloc"]]
    /\ req' = Settle(req)
    /\ KeepReserved
    /\ UNCHANGED <<auxVars, histVars, phase, containers, now, nextCid, solo>>

\* Mutant of TdDeallocate: when the provider fails, the ports of the instance
\* that is still there are reserved again.
TdDeallocate_Rereserves(d, ok) ==
    /\ td[d].pc = "dealloc"
    /\ ok => \E s \in containers : s.ID = td[d].id
    /\ containers' = IF ok THEN {s \in containers : s.ID # td[d].id} ELSE containers
    /\ td' = [td EXCEPT ![d] = [@ EXCEPT !.pc = "done",
                                    !.status = IF ok THEN 204 ELSE 500]]
    /\ portPool' = IF ok THEN portPool
                   ELSE ReservePorts(portPool,
                            UNION {s.Ports : s \in {c \in containers : c.ID = td[d].id}},
                            td[d].id)
    /\ ipPool' = ipPool
    /\ KeepReserved
    /\ UNCHANGED <<auxVars, histVars, phase, req, now, nextCid, solo>>

\* provider.Deallocate(id): removes the instance, or fails (always so for an id
\* the provider does not hold).
TdDeallocate(d, ok) ==
    /\ td[d].pc = "dealloc"
    /\ ok => \E s \in containers : s.ID = td[d].id
    /\ containers' = IF ok THEN {s \in containers : s.ID # td[d].id} ELSE containers
    /\ td' = [td EXCEPT ![d] = [@ EXCEPT !.pc = "done",
                                    !.status = IF ok THEN 204 ELSE 500]]
    /\ UNCHANGED <<auxVars, poolVars, histVars, reserved, phase, req, now, nextCid, solo>>

Next ==
    \/ \E listOk \in BOOLEAN : Reconcile(listOk)
    \/ \E r \in Reqs, name \in RequestNames, callerEnv \in CallerEnvs :
           Begin(r, name, callerEnv)
    \/ \E r \in Reqs, outcome \in {"error", "200", "500"}, hookEnv \in HookEnvs :
           Hook(r, outcome, hookEnv)
    \/ \E r \in Reqs, ok \in BOOLEAN : Create(r, ok)
    \/ \E r \in Reqs : Rollback(r)
    \/ \E r \in Reqs : Rekey(r)
    \/ \E d \in Tds, id \in KnownIds : TdReleasePort(d, id)
    \/ \E d \in Tds : TdReleaseIP(d)
    \/ \E d \in Tds, ok \in BOOLEAN : TdDeallocate(d, ok)

Spec == Init /\ [][Next]_vars

\* One request served alone, with any environment and with cancellation.
ReqInit ==
    /\ which = "none"
    /\ drive = "one"
    /\ last = [op |-> "none", owner |-> "", newOwner |-> "", value |-> "",
               ok |-> TRUE, before |-> EmptyMap]
    /\ run = [pure |-> FALSE, owners |-> {}, vals |-> <<>>, failed |-> FALSE]
    /\ scen = -1
    /\ reserved = [ip |-> {}, port |-> {}]
    /\ ipPool = IPNewPool(IPStart, IPAfter(IPStart, MaxRange - 1))
    /\ portPool = PortNewPool(PortStart, PortStart + MaxRange - 1)
    /\ phase = "boot"
    /\ containers \in ExistingChoices
    /\ req = [r \in Reqs |-> IdleReq]
    /\ td = [d \in Tds |-> IdleTd]
    /\ now = 1
    /\ nextCid = 0
    /\ solo = NoSolo
    /\ AuxIdle

ReqNext ==
    \/ Next
    \/ \E r \in Reqs : Cancel(r)

ReqSpec == ReqInit /\ [][ReqNext]_vars

\* ---------------------------------------------------- Spec: the flow claims

\* The owner key owns no entry of either pool.
OwnsNothing(id) ==
    /\ KeysOwnedBy(ipPool.allocated, id) = {}
    /\ KeysOwnedBy(portPool.allocated, id) = {}

\* The request's allocated value is in its pool's map, owned by id.
HoldsAs(r, id) ==
    IF req[r].allocatedIP # ""
    THEN /\ req[r].allocatedIP \in DOMAIN ipPool.allocated
         /\ ipPool.allocated[req[r].allocatedIP] = id
    ELSE /\ req[r].allocatedPort \in DOMAIN portPool.allocated
         /\ portPool.allocated[req[r].allocatedPort] = id

\* C1: a request whose pre-start hook call failed has returned an error and
\* left no entry owned by its server id in either pool.
C1_HookFailureReleases ==
    \A r \in Reqs :
        (req[r].pc = "done" /\ req[r].err = "hook") =>
            /\ req[r].status >= 400
            /\ OwnsNothing(req[r].serverID)

\* C2: the step that follows a failed provider.Allocate returns the provider's
\* error (500) and removes from the pool of the request's mode (the IP pool in
\* overlay mode, else the port pool) the key it allocated and nothing else; the
\* other pool is untouched; and when no other request ran since this one began,
\* both maps are as they were before it.
C2_RollbackRestores ==
    [][\A r \in Reqs :
          (req[r].pc = "rollback" /\ req'[r].pc = "done") =>
              /\ req'[r].status = 500
              /\ req'[r].err = "provider"
              /\ IF Templates[req[r].tmpl].Network # ""
                 THEN /\ DOMAIN ipPool'.allocated =
                             (DOMAIN ipPool.allocated) \ {req[r].allocatedIP}
                      /\ \A k \in DOMAIN ipPool'.allocated :
                             ipPool'.allocated[k] = ipPool.allocated[k]
                      /\ portPool' = portPool
                 ELSE /\ DOMAIN portPool'.allocated =
                             (DOMAIN portPool.allocated) \ {req[r].allocatedPort}
                      /\ \A k \in DOMAIN portPool'.allocated :
                             portPool'.allocated[k] = portPool.allocated[k]
                      /\ ipPool' = ipPool
              /\ KeysOwnedBy(ipPool'.allocated, req[r].serverID) = {}
              /\ KeysOwnedBy(portPool'.allocated, req[r].serverID) = {}
              /\ solo'.r = r =>
                     /\ ipPool'.allocated = solo'.ip
                     /\ portPool'.allocated = solo'.port
      ]_vars

\* C2 witness: an overlay-mode request, alone in flight, has returned the
\* provider's error and the IP pool holds what reconciliation reserved.
C2_Witness ==
    \E r \in Reqs :
        /\ req[r].pc = "done" /\ req[r].err = "provider"
        /\ req[r].allocatedIP # ""
        /\ solo.r = r
        /\ ipPool.allocated # EmptyMap
        /\ ipPool.allocated = solo.ip

\* C3: once a request has succeeded with instance id X its server id owns no
\* pool entry; the entry allocated for it, while it has not been released, is
\* owned by X; and when a DELETE of X that arrived after the success has made
\* its two ReleaseByServer calls, X owns no entry either, so the value is free
\* for the next Allocate.
C3_RekeyedThenReleased ==
    \A r \in Reqs :
        (req[r].pc = "done" /\ req[r].status = 201) =>
            /\ OwnsNothing(req[r].serverID)
            /\ req[r].kept => HoldsAs(r, req[r].cid)
            /\ \A d \in Tds :
                   (/\ td[d].id = req[r].cid
                    /\ td[d].late
                    /\ td[d].pc \in {"dealloc", "done"})
                   => OwnsNothing(req[r].cid)

\* C3 witness: a request was given an IP and succeeded, a later DELETE of its
\* instance id was served, and the IP is free again.
C3_Witness ==
    \E r \in Reqs, d \in Tds :
        /\ req[r].pc = "done" /\ req[r].status = 201
        /\ req[r].allocatedIP # ""
        /\ td[d].id = req[r].cid /\ td[d].late
        /\ td[d].pc = "done" /\ td[d].status = 204
        /\ req[r].allocatedIP \notin DOMAIN ipPool.allocated

\* The request takes a step of its handler.
Steps(r) == req'[r].pc # req[r].pc

\* The request's step is the one that allocated.
Allocates(r) == req[r].pc = "idle" /\ req'[r].pc \in {"hook", "create"}

\* C11: every step of a provisioning request changes one pool only. With a
\* template that names a network the port pool is left as it is, the IP pool
\* gains the allocated address under the server id and the reachable port is
\* the first declared binding's port, or 5520 when none is declared; with a
\* template that names none the IP pool is left as it is and the port pool
\* gains the allocated port. The rollback after a provider failure and the
\* re-key after a success are steps of the request too.
C11_OnePoolPerRequest ==
    [][\A r \in Reqs :
          (Steps(r) /\ req'[r].tmpl \in DOMAIN Templates) =>
              LET t == Templates[req'[r].tmpl]
                  q == req'[r]
              IN  IF t.Network # ""
                  THEN /\ portPool' = portPool
                       /\ Allocates(r) =>
                            /\ q.allocatedIP # ""
                            /\ ipPool'.allocated =
                                   MapPut(ipPool.allocated, q.allocatedIP, q.serverID)
                            /\ q.allocatedPort =
                                   (IF Len(t.Ports) > 0 THEN t.Ports[1].Container
                                    ELSE 5520)
                  ELSE /\ ipPool' = ipPool
                       /\ Allocates(r) =>
                            /\ q.allocatedIP = ""
                            /\ portPool'.allocated =
                                   MapPut(portPool.allocated, q.allocatedPort,
                                          q.serverID)]_vars

\* C11 witness: an overlay-mode request whose reachable port is also a key of
\* the port pool has been rolled back after a provider failure, and the port
\* pool still holds that key.
C11_Witness ==
    \E r \in Reqs :
        /\ req[r].pc = "done" /\ req[r].err = "provider"
        /\ req[r].allocatedIP # ""
        /\ req[r].allocatedPort \in DOMAIN portPool.allocated

\* The two requests called Allocate on the same pool, r first and q next with
\* no other change to the pool between the two calls.
Raced(r, q) ==
    /\ r < q
    /\ req[r].tmpl \in DOMAIN Templates
    /\ req[q].tmpl \in DOMAIN Templates
    /\ (Templates[req[r].tmpl].Network = "") = (Templates[req[q].tmpl].Network = "")
    /\ req[q].free = req[r].free - (IF req[r].err = "exhausted" THEN 0 ELSE 1)

\* C13: of two requests whose Allocate calls follow one another on a pool with
\* exactly one free value, one obtains the value and the other is answered
\* with exhaustion.
C13_LastValueRace ==
    \A r \in Reqs, q \in Reqs :
        (Raced(r, q) /\ req[r].free = 1) =>
            (req[r].err = "exhausted") # (req[q].err = "exhausted")

\* C18: a teardown calls ReleaseByServer(id) on the port pool, then on the IP
\* pool, and only then the provider's Deallocate. The Deallocate step changes
\* neither pool, so what was released stays free when it fails, and its
\* failure is answered with the error.
C18_ReleaseBeforeDeallocate ==
    [][\A d \in Tds :
          /\ (td[d].pc # "relIP" /\ td'[d].pc = "relIP") =>
                /\ td[d].pc = "idle"
                /\ portPool' \in PortReleaseByServer(portPool, td'[d].id)
          /\ (td[d].pc # "dealloc" /\ td'[d].pc = "dealloc") =>
                /\ td[d].pc = "relIP"
                /\ ipPool' \in IPReleaseByServer(ipPool, td[d].id)
          /\ (td[d].pc # "done" /\ td'[d].pc = "done") =>
                /\ td[d].pc = "dealloc"
                /\ ipPool' = ipPool
                /\ portPool' = portPool
                /\ containers' = containers => td'[d].status = 500]_vars

\* C18 witness: a teardown of a running instance ended with the provider's
\* error; the instance is still there and its port is free.
C18_Witness ==
    \E d \in Tds, s \in containers :
        /\ td[d].pc = "done" /\ td[d].status = 500
        /\ s.ID = td[d].id
        /\ s.Ports # {}
        /\ s.Ports \cap DOMAIN portPool.allocated = {}

\* ------------------------------------------- ReqSpec: one request's claims

\* C12: the environment handed to the provider's create call has, for every
\* key of the caller's env, the caller's value, whatever the template, the
\* server overlay, the mode and the hook wrote for that key.
C12_CallerEnvWins ==
    \A r \in Reqs :
        req[r].issued =>
            \A k \in DOMAIN req[r].callerEnv :
                /\ k \in DOMAIN req[r].env
                /\ req[r].env[k] = req[r].callerEnv[k]

\* C12 witness: the provider was called with the caller's SERVER_PORT and
\* SERVER_MODE although the mode, the template and then the hook had set them.
C12_Witness ==
    \E r \in Reqs :
        /\ req[r].issued
        /\ {"SERVER_PORT", "SERVER_MODE"} \subseteq DOMAIN req[r].callerEnv
        /\ {"SERVER_PORT", "SERVER_MODE"} \subseteq DOMAIN req[r].hookEnv
        /\ "SERVER_MODE" \in DOMAIN Templates[req[r].tmpl].Environment
        /\ req[r].env["SERVER_PORT"] = "caller"
        /\ req[r].env["SERVER_ID"] = "hook"

\* C16: in host mode, when neither the hook nor the caller sets SERVER_HOST,
\* the environment handed to the provider has SERVER_HOST = 127.0.0.1.
C16_HostModeLoopback ==
    \A r \in Reqs :
        (/\ req[r].issued
         /\ Templates[req[r].tmpl].Network = ""
         /\ "SERVER_HOST" \notin DOMAIN req[r].hookEnv
         /\ "SERVER_HOST" \notin DOMAIN req[r].callerEnv)
            => req[r].env["SERVER_HOST"] = "127.0.0.1"

\* C14: a request whose context was cancelled while it waited on the hook or
\* on the provider ends as a failure, and when it has ended its server id owns
\* no entry of either pool.
C14_CancelledReleases ==
    \A r \in Reqs :
        (req[r].cancelled /\ req[r].pc = "done") =>
            /\ req[r].status = 500
            /\ OwnsNothing(req[r].serverID)

\* C15: once the hook has answered with a non-2xx status the provider's create
\* call is not made for the request, and the request ends with the hook's
\* failure.
C15_NonOkHookAborts ==
    \A r \in Reqs :
        req[r].hook = "500" =>
            /\ ~req[r].issued
            /\ req[r].pc = "done" => req[r].err = "hook"

\* ------------------------------------------------ LoadSpec: LoadTemplates

\* What the templates directory may hold, in the order os.ReadDir lists it (by
\* file name): two files that parse, one whose YAML is not well formed, one
\* that cannot be read, one that is not YAML by its name, and one that is well
\* formed but has a field of the wrong type after its name.
DirEntries == <<
    [file |-> "a.yaml",      read |-> TRUE,  parse |-> "ok",     name |-> "hytale-test"],
    [file |-> "b.yaml",      read |-> TRUE,  parse |-> "ok",     name |-> "hytale-prod"],
    [file |-> "broken.yaml", read |-> TRUE,  parse |-> "syntax", name |-> ""],
    [file |-> "locked.yaml", read |-> FALSE, parse |-> "ok",     name |-> "hytale-lan"],
    [file |-> "notes.txt",   read |-> TRUE,  parse |-> "syntax", name |-> ""],
    [file |-> "typed.yaml",  read |-> TRUE,  parse |-> "type",   name |-> "hytale-test"] >>

\* The entries whose index is in S, from the i-th on, in listing order.
RECURSIVE Listing(_, _)
Listing(i, S) ==
    IF i > Len(DirEntries) THEN <<>>
    ELSE (IF i \in S THEN <<DirEntries[i]>> ELSE <<>>) \o Listing(i + 1, S)

\* filepath.Ext(file.Name()): the suffix from the last dot on.
Ext(file) ==
    LET n == Len(file)
        dots == {j \in 1..n : SubSeq(file, j, j) = "."}
    IN  IF dots = {} THEN ""
        ELSE SubSeq(file, CHOOSE j \in dots : \A k \in dots : k <= j, n)

\* var t Template; err = yaml.Unmarshal(data, &t): the error and t after the
\* call. A document that is not well formed leaves t as declared; one with a
\* field of the wrong type fills the fields it can decode.
Unmarshal(f) ==
    CASE f.parse = "ok" ->
             [err |-> FALSE, t |-> [Name |-> f.name, From |-> f.file, Whole |-> TRUE]]
      [] f.parse = "type" ->
             [err |-> TRUE, t |-> [Name |-> f.name, From |-> f.file, Whole |-> FALSE]]
      [] OTHER ->
             [err |-> TRUE, t |-> [Name |-> "", From |-> f.file, Whole |-> FALSE]]

\* The directory holds at most MaxFiles entries; os.ReadDir may fail.
LoadInit ==
    /\ which = "none"
    /\ drive = "none"
    /\ last = [op |-> "none", owner |-> "", newOwner |-> "", value |-> "",
               ok |-> TRUE, before |-> EmptyMap]
    /\ run = [pure |-> FALSE, owners |-> {}, vals |-> <<>>, failed |-> FALSE]
    /\ scen = -1
    /\ reserved = [ip |-> {}, port |-> {}]
    /\ ipPool = IPNewPool(IPStart, IPAfter(IPStart, MaxRange - 1))
    /\ portPool = PortNewPool(PortStart, PortStart + MaxRange - 1)
    /\ phase = "load"
    /\ containers = {}
    /\ req = [r \in Reqs |-> IdleReq]
    /\ td = [d \in Tds |-> IdleTd]
    /\ now = 1
    /\ nextCid = 0
    /\ solo = NoSolo
    /\ mu = FreeMu
    /\ lk = [p \in Procs |-> IdleLk]
    /\ CopyIdle
    /\ \E S \in SUBSET (1..Len(DirEntries)), dirOk \in BOOLEAN :
          /\ Cardinality(S) <= MaxFiles
          /\ loader = [pc |-> "start", dirOk |-> dirOk, files |-> Listing(1, S),
                       i |-> 1, templates |-> EmptyMap]

\* files, err := os.ReadDir(dir): on an error LoadTemplates returns it.
ReadDir ==
    /\ loader.pc = "start"
    /\ loader' = [loader EXCEPT !.pc = IF loader.dirOk THEN "loop" ELSE "failed"]
    /\ UNCHANGED <<poolVars, histVars, reserved, flowVars, mu, lk, heap, container>>

\* One turn of the loop: a file that is not .yaml or cannot be read is passed
\* over; any other is unmarshalled and t is stored under t.Name, the error of
\* Unmarshal not being looked at.
LoadFile ==
    /\ loader.pc = "loop"
    /\ loader.i <= Len(loader.files)
    /\ LET f == loader.files[loader.i]
           u == Unmarshal(f)
       IN  loader' = [loader EXCEPT
                         !.i = @ + 1,
                         !.templates =
                             IF Ext(f.file) # ".yaml" \/ ~f.read THEN @
                             ELSE MapPut(@, u.t.Name, u.t)]
    /\ UNCHANGED <<poolVars, histVars, reserved, flowVars, mu, lk, heap, container>>

\* The loop is over: return templates, nil.
LoadReturn ==
    /\ loader.pc = "loop"
    /\ loader.i > Len(loader.files)
    /\ loader' = [loader EXCEPT !.pc = "returned"]
    /\ UNCHANGED <<poolVars, histVars, reserved, flowVars, mu, lk, heap, container>>

LoadNext ==
    \/ ReadDir
    \/ LoadFile
    \/ LoadReturn

LoadSpec == LoadInit /\ [][LoadNext]_vars

\* The files of the listing the loop has been through.
Visited == SubSeq(loader.files, 1, loader.i - 1)

\* C17: a file whose content fails to parse adds no entry to the mapping, so
\* every entry comes from a file that parsed and is stored under that file's
\* template name; and once the directory is listed the load does not fail.
C17_MalformedSkipped ==
    /\ \A n \in DOMAIN loader.templates :
          \E j \in 1..Len(Visited) :
              /\ Visited[j].parse = "ok"
              /\ Visited[j].name = n
              /\ loader.templates[n].From = Visited[j].file
    /\ loader.dirOk => loader.pc # "failed"

\* ---------------------------- LockSpec: the mutexes and the external calls

\* What LockSpec keeps of a request: its handler (kind "post" or "delete"),
\* whether its template has a hook, the pool and the method of the pool call it
\* is at, and where it stands: "want" before p.mu.Lock() returns, "held" inside
\* the method, "hook" and "provider" inside an external call.
LockInit ==
    /\ which = "none"
    /\ drive = "none"
    /\ last = [op |-> "none", owner |-> "", newOwner |-> "", value |-> "",
               ok |-> TRUE, before |-> EmptyMap]
    /\ run = [pure |-> FALSE, owners |-> {}, vals |-> <<>>, failed |-> FALSE]
    /\ scen = -1
    /\ reserved = [ip |-> {}, port |-> {}]
    /\ ipPool = IPNewPool(IPStart, IPAfter(IPStart, MaxRange - 1))
    /\ portPool = PortNewPool(PortStart, PortStart + MaxRange - 1)
    /\ phase = "locks"
    /\ containers = {}
    /\ req = [r \in Reqs |-> IdleReq]
    /\ td = [d \in Tds |-> IdleTd]
    /\ now = 1
    /\ nextCid = 0
    /\ solo = NoSolo
    /\ loader = IdleLoader
    /\ mu = FreeMu
    /\ lk = [p \in Procs |-> IdleLk]
    /\ CopyIdle

\* POST /orchestration/servers arrives: the template's network field decides
\* the pool, and the handler calls Allocate on it.
LkPost(p, pool, hook) ==
    /\ phase = "locks"
    /\ lk[p].pc = "idle"
    /\ \A q \in 1..(p - 1) : lk[q].pc # "idle"
    /\ lk' = [lk EXCEPT ![p] = [kind |-> "post", hook |-> hook, pool |-> pool,
                                op |-> "Allocate", pc |-> "want"]]
    /\ UNCHANGED <<poolVars, histVars, reserved, flowVars, loader, mu, heap, container>>

\* DELETE /orchestration/servers/:id arrives: the handler calls ReleaseByServer
\* on the port pool.
LkDelete(p) ==
    /\ phase = "locks"
    /\ lk[p].pc = "idle"
    /\ \A q \in 1..(p - 1) : lk[q].pc # "idle"
    /\ lk' = [lk EXCEPT ![p] = [kind |-> "delete", hook |-> FALSE, pool |-> "port",
                                op |-> "ReleaseByServer", pc |-> "want"]]
    /\ UNCHANGED <<poolVars, histVars, reserved, flowVars, loader, mu, heap, container>>

\* p.mu.Lock() at the head of a pool method returns once the mutex is free.
MuLock(p) ==
    /\ lk[p].pc = "want"
    /\ mu[lk[p].pool] = 0
    /\ mu' = [mu EXCEPT ![lk[p].pool] = p]
    /\ lk' = [lk EXCEPT ![p] = [@ EXCEPT !.pc = "held"]]
    /\ UNCHANGED <<poolVars, histVars, reserved, flowVars, loader, heap, container>>

\* Where the handler goes when the pool method has returned: after Allocate to
\* the hook, to the provider's create, or out with 503; after the port pool's
\* ReleaseByServer to the IP pool's; after that to the provider's Deallocate;
\* after Release and ReKey out.
AfterCall(q, ok) ==
    CASE q.op = "Allocate" /\ ~ok -> [q EXCEPT !.pc = "done"]
      [] q.op = "Allocate" /\ ok ->
             [q EXCEPT !.pc = IF q.hook THEN "hook" ELSE "provider"]
      [] q.op = "ReleaseByServer" /\ q.pool = "port" ->
             [q EXCEPT !.pc = "want", !.pool = "ip"]
      [] q.op = "ReleaseByServer" /\ q.pool = "ip" -> [q EXCEPT !.pc = "provider"]
      [] OTHER -> [q EXCEPT !.pc = "done"]

\* Mutant of MuUnlock: Allocate returns with the mutex still locked.
MuUnlock_AllocateKeeps(p, ok) ==
    /\ lk[p].pc = "held"
    /\ (lk[p].op # "Allocate") => ok
    /\ mu' = IF lk[p].op = "Allocate" THEN mu ELSE [mu EXCEPT ![lk[p].pool] = 0]
    /\ lk' = [lk EXCEPT ![p] = AfterCall(@, ok)]
    /\ UNCHANGED <<poolVars, histVars, reserved, flowVars, loader, heap, container>>

\* Mutant of MuUnlock: the port pool's ReleaseByServer returns with the mutex
\* still locked.
MuUnlock_ReleaseKeeps(p, ok) ==
    /\ lk[p].pc = "held"
    /\ (lk[p].op # "Allocate") => ok
    /\ mu' = IF lk[p].op = "ReleaseByServer" /\ lk[p].pool = "port" THEN mu
             ELSE [mu EXCEPT ![lk[p].pool] = 0]
    /\ lk' = [lk EXCEPT ![p] = AfterCall(@, ok)]
    /\ UNCHANGED <<poolVars, histVars, reserved, flowVars, loader, heap, container>>

\* The pool method's body runs and the deferred p.mu.Unlock() unlocks the
\* mutex as the method returns; Allocate returns a value or an error.
MuUnlock(p, ok) ==
    /\ lk[p].pc = "held"
    /\ (lk[p].op # "Allocate") => ok
    /\ mu' = [mu EXCEPT ![lk[p].pool] = 0]
    /\ lk' = [lk EXCEPT ![p] = AfterCall(@, ok)]
    /\ UNCHANGED <<poolVars, histVars, reserved, flowVars, loader, heap, container>>

\* http.Get of the hook URL returns: an error ends the request, an answer
\* takes it on to the provider.
LkHook(p, ok) ==
    /\ lk[p].pc = "hook"
    /\ lk' = [lk EXCEPT ![p] = [@ EXCEPT !.pc = IF ok THEN "provider" ELSE "done"]]
    /\ UNCHANGED <<poolVars, histVars, reserved, flowVars, loader, mu, heap, container>>

\* The provider's call returns: after Allocate the handler calls ReKey, or on
\* an error Release, on the request's pool; after Deallocate it answers.
LkProvider(p, ok) ==
    /\ lk[p].pc = "provider"
    /\ lk' = [lk EXCEPT ![p] =
                 IF lk[p].kind = "post"
                 THEN [@ EXCEPT !.pc = "want", !.op = IF ok THEN "ReKey" ELSE "Release"]
                 ELSE [@ EXCEPT !.pc = "done"]]
    /\ UNCHANGED <<poolVars, histVars, reserved, flowVars, loader, mu, heap, container>>

LockNext ==
    \/ \E p \in Procs, pool \in {"ip", "port"}, hook \in BOOLEAN : LkPost(p, pool, hook)
    \/ \E p \in Procs : LkDelete(p)
    \/ \E p \in Procs : MuLock(p)
    \/ \E p \in Procs, ok \in BOOLEAN : MuUnlock(p, ok)
    \/ \E p \in Procs, ok \in BOOLEAN : LkHook(p, ok)
    \/ \E p \in Procs, ok \in BOOLEAN : LkProvider(p, ok)

LockSpec == LockInit /\ [][LockNext]_vars

\* The request is between its arrival and its answer.
InFlight(p) == lk[p].pc \notin {"idle", "done"}

\* The request waits for a mutex that is locked.
Blocked(p) == lk[p].pc = "want" /\ mu[lk[p].pool] # 0

\* C19: a request that waits on the hook or on a provider call holds no pool
\* mutex; whoever holds one is inside the method of that pool and returns from
\* it by a step of its own, so what other requests ask of either pool
\* completes while the request waits.
C19_NoLockAcrossExternalCall ==
    /\ \A p \in Procs :
          lk[p].pc \in {"hook", "provider"} => (mu.ip # p /\ mu.port # p)
    /\ \A pool \in {"ip", "port"} :
          mu[pool] # 0 => (lk[mu[pool]].pc = "held" /\ lk[mu[pool]].pool = pool)

\* C19 witness: one request waits on its hook while another is inside Allocate
\* of the same pool.
C19_Witness ==
    \E p \in Procs, q \in Procs :
        /\ lk[p].pc = "hook"
        /\ lk[q].pc = "held" /\ lk[q].op = "Allocate"
        /\ lk[q].pool = lk[p].pool
        /\ mu[lk[q].pool] = q

\* C20: no request holds the mutexes of both pools at once, and whenever
\* requests are in flight one of them is not waiting for a locked mutex.
C20_NoCrossPoolDeadlock ==
    /\ \A p \in Procs : ~(mu.ip = p /\ mu.port = p)
    /\ (\E p \in Procs : InFlight(p)) => (\E p \in Procs : InFlight(p) /\ ~Blocked(p))

\* C20 witness: a teardown is inside the IP pool's ReleaseByServer while a
\* provisioning request is inside the port pool's Allocate: both mutexes are
\* locked, by two requests.
C20_Witness ==
    \E p \in Procs, q \in Procs :
        /\ lk[p].kind = "delete" /\ lk[p].pc = "held" /\ mu.ip = p
        /\ lk[q].kind = "post" /\ lk[q].pc = "held" /\ mu.port = q

\* ------------------------------------------ reconciliation and teardown claims

\* The number of entries an owner has in the two pools together.
EntriesOf(id) ==
    Cardinality(KeysOwnedBy(ipPool.allocated, id))
        + Cardinality(KeysOwnedBy(portPool.allocated, id))

\* C21: every key of a pool's allocated map lies within the pool's range
\* [start, end], both ends included, whatever calls were made, the Reserve
\* calls of the reconciliation at startup among them.
C21_KeysWithinRange ==
    /\ \A k \in DOMAIN ipPool.allocated : k \in IPValues(ipPool)
    /\ \A k \in DOMAIN portPool.allocated : k \in PortValues(portPool)

\* C22: an owner owns at most one entry in the two pools taken together, so a
\* teardown finds a match in at most one pool; instances seeded by the
\* reconciliation are included.
C22_OneEntryPerOwner ==
    \A id \in KnownIds : EntriesOf(id) <= 1

\* C26: when a teardown of id has made its two ReleaseByServer calls, neither
\* pool has an entry owned by id, whatever the instance, one that the
\* reconciliation seeded with several ports or with ports and an IP included.
C26_TeardownLeavesNothing ==
    [][\A d \in Tds :
          (td[d].pc = "relIP" /\ td'[d].pc = "dealloc") =>
              /\ KeysOwnedBy(ipPool'.allocated, td[d].id) = {}
              /\ KeysOwnedBy(portPool'.allocated, td[d].id) = {}]_vars

\* C24: once a provisioning request has succeeded with instance id X and a
\* teardown of X has completed with success, no pool holds an entry for the
\* resource allocated for X, neither under X nor under the request's server
\* id; the teardown may have run between the provider's create call returning
\* and the re-key.
C24_TornDownHoldsNothing ==
    \A r \in Reqs, d \in Tds :
        (/\ req[r].pc = "done" /\ req[r].status = 201
         /\ td[d].pc = "done" /\ td[d].status = 204
         /\ td[d].id = req[r].cid) =>
            /\ OwnsNothing(req[r].cid)
            /\ OwnsNothing(req[r].serverID)

\* -------------------------------- RaceSpec: requests raced by teardowns

\* The templates without a pre-start hook: their requests go from the pool
\* allocation straight to the provider.
RaceNames == {n \in DOMAIN Templates : Templates[n].PreStart = ""}

\* A process that starts with no instance to reconcile.
RaceInit ==
    /\ which = "none"
    /\ drive = "race"
    /\ last = [op |-> "none", owner |-> "", newOwner |-> "", value |-> "",
               ok |-> TRUE, before |-> EmptyMap]
    /\ run = [pure |-> FALSE, owners |-> {}, vals |-> <<>>, failed |-> FALSE]
    /\ scen = -1
    /\ reserved = [ip |-> {}, port |-> {}]
    /\ ipPool = IPNewPool(IPStart, IPAfter(IPStart, MaxRange - 1))
    /\ portPool = PortNewPool(PortStart, PortStart + MaxRange - 1)
    /\ phase = "boot"
    /\ containers = {}
    /\ req = [r \in Reqs |-> IdleReq]
    /\ td = [d \in Tds |-> IdleTd]
    /\ now = 1
    /\ nextCid = 0
    /\ solo = NoSolo
    /\ AuxIdle

RaceNext ==
    \/ \E listOk \in BOOLEAN : Reconcile(listOk)
    \/ \E r \in Reqs, name \in RaceNames : Begin(r, name, EmptyMap)
    \/ \E r \in Reqs, ok \in BOOLEAN : Create(r, ok)
    \/ \E r \in Reqs : Rollback(r)
    \/ \E r \in Reqs : Rekey(r)
    \/ \E d \in Tds, id \in KnownIds : TdReleasePort(d, id)
    \/ \E d \in Tds : TdReleaseIP(d)
    \/ \E d \in Tds, ok \in BOOLEAN : TdDeallocate(d, ok)

RaceSpec == RaceInit /\ [][RaceNext]_vars

\* The request has a resource and is either still in flight or has succeeded
\* and no teardown of its instance has completed with success.
Live(r) ==
    \/ req[r].pc \in {"hook", "create", "rekey", "rollback"}
    \/ /\ req[r].pc = "done" /\ req[r].status = 201
       /\ ~\E d \in Tds : /\ td[d].pc = "done" /\ td[d].status = 204
                          /\ td[d].id = req[r].cid

\* The two requests were handed the same value of the same pool.
SameResource(r, q) ==
    IF req[r].allocatedIP # "" \/ req[q].allocatedIP # ""
    THEN req[r].allocatedIP = req[q].allocatedIP
    ELSE req[r].allocatedPort = req[q].allocatedPort

\* The request's value is a key of the map of the pool it came from.
InPool(r) ==
    IF req[r].allocatedIP # ""
    THEN req[r].allocatedIP \in DOMAIN ipPool.allocated
    ELSE req[r].allocatedPort \in DOMAIN portPool.allocated

\* C25: whatever the interleaving of provisioning requests, their rollbacks and
\* teardowns of any id, no value of a pool is assigned at once to two requests
\* that are each in flight or succeeded and not torn down; and the Release by
\* value of a rollback removes no entry of another such request.
C25_NoSharedResource ==
    [][/\ \A r \in Reqs, q \in Reqs :
             (r # q /\ Live(r)' /\ Live(q)') => ~SameResource(r, q)'
       /\ \A r \in Reqs, q \in Reqs :
             (/\ r # q
              /\ req[r].pc = "rollback" /\ req'[r].pc = "done"
              /\ Live(q) /\ InPool(q)) => InPool(q)']_vars

\* ------------------- CopySpec: the template's container and a request's copy

\* A nil map or slice.
Nil == <<"nil", "">>

\* The marker the handler expands in the host paths of the volumes.
ServerIDMarker == "{{SERVER_ID}}"

\* The volumes of the loaded templates, host path to container path; a host
\* path is the sequence of its pieces, the marker being a piece of its own.
TemplateVolumes ==
    [n \in DOMAIN Templates |->
        CASE n = "hytale-test" ->
                 [k \in {<<"/srv/", ServerIDMarker>>, <<"/etc/hytale">>} |->
                     IF k = <<"/etc/hytale">> THEN "/config" ELSE "/data"]
          [] n = "hytale-lan" ->
                 [k \in {<<"/srv/", ServerIDMarker, "/world">>} |-> "/world"]
          [] OTHER -> EmptyMap]

\* The fields of a container struct that are maps or slices.
RefFields == {"Environment", "Ports", "Volumes"}

\* The value a template's file gives the field; a field the file leaves out
\* is nil.
TemplateField(n, f) ==
    CASE f = "Environment" -> Templates[n].Environment
      [] f = "Ports" -> Templates[n].Ports
      [] OTHER -> TemplateVolumes[n]

\* The address of the template's map or slice, and of the request's.
TemplateAddr(n, f) == <<n, f>>

RequestAddr(r, f) == <<"request " \o ToString(r), f>>

TemplateRef(n, f) == IF DOMAIN TemplateField(n, f) = {} THEN Nil ELSE TemplateAddr(n, f)

\* The heap once LoadTemplates has returned: the maps and slices of the
\* templates' containers.
LoadedHeap ==
    [a \in {b \in (DOMAIN Templates) \X RefFields : TemplateRef(b[1], b[2]) # Nil} |->
        TemplateField(a[1], a[2])]

\* templates[name].Container: a struct whose maps and slices are references.
TemplateContainer(n) ==
    [Network |-> Templates[n].Network, IP |-> "",
     Environment |-> TemplateRef(n, "Environment"),
     Ports |-> TemplateRef(n, "Ports"),
     Volumes |-> TemplateRef(n, "Volumes")]

\* Mutant of deepCopyAllocateRequest: the Ports slice is not duplicated.
deepCopyAllocateRequest_SharesPorts(h, src, r) ==
    LET copied == {f \in {"Environment", "Volumes"} : src[f] # Nil}
    IN  [heap |-> [a \in (DOMAIN h) \cup {RequestAddr(r, f) : f \in copied} |->
                      IF a \in DOMAIN h THEN h[a]
                      ELSE h[src[a[2]]]],
         dst |-> [src EXCEPT
                     !.Environment = IF src.Environment # Nil
                                     THEN RequestAddr(r, "Environment") ELSE Nil,
                     !.Volumes = IF src.Volumes # Nil
                                 THEN RequestAddr(r, "Volumes") ELSE Nil]]

\* deepCopyAllocateRequest(src): dst := src, then Environment, Ports and
\* Volumes, each when it is not nil, are made anew and filled with the
\* entries of src's. The heap after the call and the struct returned.
deepCopyAllocateRequest(h, src, r) ==
    LET copied == {f \in RefFields : src[f] # Nil}
    IN  [heap |-> [a \in (DOMAIN h) \cup {RequestAddr(r, f) : f \in copied} |->
                      IF a \in DOMAIN h THEN h[a]
                      ELSE h[src[a[2]]]],
         dst |-> [src EXCEPT
                     !.Environment = IF src.Environment # Nil
                                     THEN RequestAddr(r, "Environment") ELSE Nil,
                     !.Ports = IF src.Ports # Nil
                               THEN RequestAddr(r, "Ports") ELSE Nil,
                     !.Volumes = IF src.Volumes # Nil
                                 THEN RequestAddr(r, "Volumes") ELSE Nil]]

\* strings.Contains(hostPath, marker) and strings.ReplaceAll(hostPath, marker, id).
Contains(path, piece) == \E i \in DOMAIN path : path[i] = piece

ReplaceAll(path, piece, new) ==
    [i \in DOMAIN path |-> IF path[i] = piece THEN new ELSE path[i]]

\* The volumes after the expansion loop: every host path that contains the
\* marker is deleted and put back expanded, with its container path.
ExpandVolumes(vols, serverID) ==
    LET expand(k) == IF Contains(k, ServerIDMarker)
                     THEN ReplaceAll(k, ServerIDMarker, serverID) ELSE k
    IN  [x \in {expand(k) : k \in DOMAIN vols} |->
            vols[CHOOSE k \in DOMAIN vols : expand(k) = x]]

\* for i := range container.Ports: Host and Container of every binding are set
\* to the allocated port.
BindPorts(ports, port) ==
    [i \in DOMAIN ports |-> [ports[i] EXCEPT !.Host = port, !.Container = port]]

\* The struct with its references followed: what provider.Allocate is given.
Deref(h, c) ==
    [Network |-> c.Network, IP |-> c.IP,
     Environment |-> IF c.Environment = Nil THEN EmptyMap ELSE h[c.Environment],
     Ports |-> IF c.Ports = Nil THEN <<>> ELSE h[c.Ports],
     Volumes |-> IF c.Volumes = Nil THEN EmptyMap ELSE h[c.Volumes]]

\* The env objects a caller may send with a request of CopySpec, and the one a
\* hook answers with: a token made for the server.
CopyCallerEnvs == {EmptyMap, [k \in {"SERVER_MODE", "MOTD"} |-> "caller"]}

CopyHookEnvs(serverID) == {[k \in {"TOKEN"} |-> "token of " \o serverID]}

CopyInit ==
    /\ which = "none"
    /\ drive = "copy"
    /\ last = [op |-> "none", owner |-> "", newOwner |-> "", value |-> "",
               ok |-> TRUE, before |-> EmptyMap]
    /\ run = [pure |-> FALSE, owners |-> {}, vals |-> <<>>, failed |-> FALSE]
    /\ scen = -1
    /\ reserved = [ip |-> {}, port |-> {}]
    /\ ipPool = IPNewPool(IPStart, IPAfter(IPStart, MaxRange - 1))
    /\ portPool = PortNewPool(PortStart, PortStart + MaxRange - 1)
    /\ phase = "copy"
    /\ containers = {}
    /\ req = [r \in Reqs |-> IdleReq]
    /\ td = [d \in Tds |-> IdleTd]
    /\ now = 1
    /\ nextCid = 0
    /\ solo = NoSolo
    /\ loader = IdleLoader
    /\ mu = FreeMu
    /\ lk = [p \in Procs |-> IdleLk]
    /\ heap = LoadedHeap
    /\ container = [r \in Reqs |-> IdleContainer]

\* POST /orchestration/servers: the template lookup (404 when there is none),
\* the copy of the template's container and the server id.
CopyBegin(r, name, callerEnv) ==
    /\ phase = "copy"
    /\ container[r].pc = "idle"
    /\ \A q \in 1..(r - 1) : container[q].pc # "idle"
    /\ IF name \notin DOMAIN Templates
       THEN /\ container' = [container EXCEPT ![r] =
                                [@ EXCEPT !.pc = "done", !.tmpl = name, !.status = 404]]
            /\ UNCHANGED <<heap, now>>
       ELSE LET d == deepCopyAllocateRequest(heap, TemplateContainer(name), r)
            IN  /\ heap' = d.heap
                /\ now' = now + 1
                /\ container' = [container EXCEPT ![r] =
                       [@ EXCEPT !.pc = "volumes", !.tmpl = name, !.c = d.dst,
                                 !.serverID = name \o "-" \o ToString(now),
                                 !.callerEnv = callerEnv]]
    /\ UNCHANGED <<poolVars, histVars, reserved, phase, containers, req, td, nextCid,
                   solo, loader, mu, lk>>

\* The loop that expands the marker in the host paths of container.Volumes.
CopyVolumes(r) ==
    /\ container[r].pc = "volumes"
    /\ heap' = IF container[r].c.Volumes = Nil THEN heap
               ELSE [heap EXCEPT ![container[r].c.Volumes] =
                        ExpandVolumes(@, container[r].serverID)]
    /\ container' = [container EXCEPT ![r] = [@ EXCEPT !.pc = "server"]]
    /\ UNCHANGED <<poolVars, histVars, reserved, flowVars, loader, mu, lk>>

\* The server-config overlay: container.Environment is made when it is nil,
\* then every entry of tmpl.Server is written to it.
CopyServer(r) ==
    /\ container[r].pc = "server"
    /\ LET env == IF container[r].c.Environment = Nil
                  THEN RequestAddr(r, "Environment")
                  ELSE container[r].c.Environment
           old == IF container[r].c.Environment = Nil THEN EmptyMap ELSE heap[env]
       IN  /\ heap' = MapPut(heap, env,
                             MapMerge(old, Templates[container[r].tmpl].Server))
           /\ container' = [container EXCEPT ![r] =
                               [@ EXCEPT !.pc = "mode", !.c.Environment = env]]
    /\ UNCHANGED <<poolVars, histVars, reserved, flowVars, loader, mu, lk>>

\* The mode: with a network, an address of the IP pool goes to container.IP
\* and SERVER_HOST and the port is the first binding's or 5520; without one, a
\* port of the port pool goes to every binding and SERVER_HOST is the bind
\* address. Then SERVER_PORT and SERVER_ID. An exhausted pool ends the request
\* with 503.
CopyMode(r) ==
    /\ container[r].pc = "mode"
    /\ LET q == container[r]
           c == q.c
           a == IF c.Network # "" THEN IPAllocate(ipPool, q.serverID)
                ELSE PortAllocate(portPool, q.serverID)
           port == IF c.Network = "" THEN a.value
                   ELSE IF c.Ports # Nil /\ Len(heap[c.Ports]) > 0
                        THEN heap[c.Ports][1].Container ELSE DefaultPort
           host == IF c.Network # "" THEN a.value ELSE HostBindAddress
           bound == IF c.Network = "" /\ c.Ports # Nil
                    THEN [heap EXCEPT ![c.Ports] = BindPorts(@, port)]
                    ELSE heap
           next == IF Templates[q.tmpl].PreStart # "" THEN "hook" ELSE "create"
       IN  /\ ipPool' = IF c.Network # "" THEN a.pool ELSE ipPool
           /\ portPool' = IF c.Network = "" THEN a.pool ELSE portPool
           /\ IF a.ok
              THEN /\ heap' = [bound EXCEPT ![c.Environment] =
                                  ModeEnv(@, host, port, q.serverID)]
                   /\ container' = [container EXCEPT ![r] =
                          [@ EXCEPT !.pc = next,
                                    !.c.IP = IF c.Network # "" THEN a.value ELSE "",
                                    !.allocatedIP = IF c.Network # "" THEN a.value ELSE "",
                                    !.allocatedPort = port]]
              ELSE /\ heap' = heap
                   /\ container' = [container EXCEPT ![r] =
                          [@ EXCEPT !.pc = "done", !.status = 503]]
    /\ UNCHANGED <<histVars, reserved, flowVars, loader, mu, lk>>

\* The pre-start hook: a failed call ends the request with 500; any answer's
\* env object is merged into container.Environment.
CopyHook(r, outcome, hookEnv) ==
    /\ container[r].pc = "hook"
    /\ IF outcome = "error"
       THEN /\ container' = [container EXCEPT ![r] =
                                [@ EXCEPT !.pc = "done", !.status = 500]]
            /\ heap' = heap
       ELSE /\ container' = [container EXCEPT ![r] =
                                [@ EXCEPT !.pc = "create", !.hookEnv = hookEnv]]
            /\ heap' = [heap EXCEPT ![container[r].c.Environment] =
                           MapMerge(@, hookEnv)]
    /\ UNCHANGED <<poolVars, histVars, reserved, flowVars, loader, mu, lk>>

\* The caller's env is merged and the container handed to provider.Allocate;
\* on its error the allocated value is released and 500 returned, else the
\* entry is re-keyed to the instance id and 201 returned.
CopyCreate(r, ok) ==
    /\ container[r].pc = "create"
    /\ LET q == container[r]
           h == [heap EXCEPT ![q.c.Environment] = MapMerge(@, q.callerEnv)]
           id == "c" \o ToString(nextCid + 1)
       IN  /\ heap' = h
           /\ container' = [container EXCEPT ![r] =
                  [@ EXCEPT !.pc = "done", !.sent = Deref(h, q.c),
                            !.status = IF ok THEN 201 ELSE 500]]
           /\ nextCid' = IF ok THEN nextCid + 1 ELSE nextCid
           /\ IF q.allocatedIP # ""
              THEN /\ portPool' = portPool
                   /\ IF ok THEN ipPool' \in IPReKey(ipPool, q.serverID, id)
                      ELSE ipPool' = IPRelease(ipPool, q.allocatedIP)
              ELSE /\ ipPool' = ipPool
                   /\ IF ok THEN portPool' \in PortReKey(portPool, q.serverID, id)
                      ELSE portPool' = PortRelease(portPool, q.allocatedPort)
    /\ UNCHANGED <<histVars, reserved, phase, containers, req, td, now, solo,
                   loader, mu, lk>>

CopyNext ==
    \/ \E r \in Reqs, name \in RequestNames, callerEnv \in CopyCallerEnvs :
           CopyBegin(r, name, callerEnv)
    \/ \E r \in Reqs : CopyVolumes(r)
    \/ \E r \in Reqs : CopyServer(r)
    \/ \E r \in Reqs : CopyMode(r)
    \/ \E r \in Reqs, outcome \in {"error", "200"} :
           \E hookEnv \in CopyHookEnvs(container[r].serverID) :
               CopyHook(r, outcome, hookEnv)
    \/ \E r \in Reqs, ok \in BOOLEAN : CopyCreate(r, ok)

CopySpec == CopyInit /\ [][CopyNext]_vars

\* What a request alone would hand to the provider: the template's container
\* as loaded, with the request's own server id, address or port, hook answer
\* and caller env.
OwnContainer(q) ==
    LET t == Templates[q.tmpl]
        host == IF t.Network # "" THEN q.allocatedIP ELSE HostBindAddress
    IN  [Network |-> t.Network, IP |-> q.allocatedIP,
         Environment |->
             MapMerge(MapMerge(ModeEnv(BaseEnv(t), host, q.allocatedPort, q.serverID),
                               q.hookEnv),
                      q.callerEnv),
         Ports |-> IF t.Network = "" THEN BindPorts(t.Ports, q.allocatedPort)
                   ELSE t.Ports,
         Volumes |-> ExpandVolumes(TemplateVolumes[q.tmpl], q.serverID)]

\* C23: provisioning never changes the loaded template: the environment, port
\* bindings and volumes of every template's container are as at load, however
\* many requests ran against it and however their steps interleaved; and the
\* container a request hands to the provider holds the template's values and
\* the request's own, none written by another request.
C23_TemplateNeverMutated ==
    /\ phase = "copy" =>
          \A n \in DOMAIN Templates, f \in RefFields :
              TemplateRef(n, f) # Nil => heap[TemplateAddr(n, f)] = TemplateField(n, f)
    /\ \A r \in Reqs :
          (container[r].pc = "done" /\ container[r].status \in {201, 500}
              /\ container[r].sent # <<>>) =>
              container[r].sent = OwnContainer(container[r])

\* C23 witness: two requests against the same host-mode template with port
\* bindings and a volume to expand have each handed their container to the
\* provider, each with its own port in the bindings.
C23_Witness ==
    \E r \in Reqs, q \in Reqs :
        /\ r # q
        /\ container[r].pc = "done" /\ container[q].pc = "done"
        /\ container[r].sent # <<>> /\ container[q].sent # <<>>
        /\ container[r].tmpl = container[q].tmpl
        /\ Templates[container[r].tmpl].Network = ""
        /\ Len(container[r].sent.Ports) > 0
        /\ container[r].sent.Ports[1].Host # container[q].sent.Ports[1].Host
        /\ DOMAIN container[r].sent.Volumes # DOMAIN container[q].sent.Volumes

====
